---- MODULE Spec2Model ----
(***************************************************************************)
(* Model of the Image component (src/unnamed/part_000): a React function   *)
(* component that wraps an <img> in an aspect-ratio container and, when    *)
(* `shimmer` is requested, renders a placeholder until the client has      *)
(* mounted the component and then the image itself.                        *)
(*                                                                         *)
(* One rendered instance is modelled.  Its props are fixed at creation,    *)
(* its two useState cells are `loaded` and `mounted`, and `tree` is the    *)
(* element tree returned by the latest call of Image.  Class strings are   *)
(* modelled as sequences of class tokens (the DOM class list of the        *)
(* string), so joining with a space is concatenation.                      *)
(***************************************************************************)
EXTENDS Integers, Sequences, FiniteSets, TLC

VARIABLES props, env, loaded, mounted, committed, loadEvents, tree

vars == <<props, env, loaded, mounted, committed, loadEvents, tree>>

\* Number of load events the browser may dispatch on the <img>.
MaxLoads == 2

----------------------------------------------------------------------------
(* JavaScript values used by the component. *)

Undefined == [kind |-> "undefined", b |-> FALSE, s |-> <<>>]
Bool(x) == [kind |-> "boolean", b |-> x, s |-> <<>>]
Str(t) == [kind |-> "string", b |-> FALSE, s |-> t]
Fn(name) == [kind |-> "function", b |-> FALSE, s |-> <<name>>]

\* JS truthiness.
Truthy(v) ==
  CASE v.kind = "undefined" -> FALSE
    [] v.kind = "boolean" -> v.b
    [] v.kind = "string" -> v.s # <<>>
    [] OTHER -> TRUE

\* JS `a && b`.
And(a, b) == IF Truthy(a) THEN b ELSE a

\* JS `!a`.
Not(a) == Bool(~Truthy(a))

\* A destructuring default `x = d`: applies when the argument is undefined.
Default(v, d) == IF v = Undefined THEN d ELSE v

Range(f) == {f[i] : i \in DOMAIN f}

----------------------------------------------------------------------------
(* Class-name fragments written in the source. *)

FillParent == <<"h-full", "w-full">>
Pulse == <<"bg-slate-100", "dark:bg-slate-900", "animate-pulse">>

\* clsx(...args): the truthy string arguments joined by a space.
RECURSIVE clsx(_)
clsx(args) ==
  IF args = <<>> THEN <<>>
  ELSE LET x == Head(args)
       IN (IF x.kind = "string" /\ Truthy(x) THEN x.s ELSE <<>>) \o clsx(Tail(args))

----------------------------------------------------------------------------
(* Props of one instance. *)

Alts == {Str(<<"A cat">>)}
Srcs == {Str(<<"/cat.jpg">>)}
AspectRatios == {Str(<<"auto">>), Str(<<"square">>), Str(<<"video">>)}
ClassNames == {Undefined, Str(<<>>), Str(<<"some-class">>), Str(<<"rounded", "shadow">>)}

\* imgProps is omitted, or an object with an optional className.
NoImgProps == [kind |-> "undefined", className |-> Undefined]
ImgPropsObj(c) == [kind |-> "object", className |-> c]

Props ==
  [alt : Alts,
   aspectRatio : AspectRatios \cup {Undefined},
   shimmer : {Undefined, Bool(FALSE), Bool(TRUE)},
   src : Srcs,
   imgProps : {NoImgProps} \cup {ImgPropsObj(c) : c \in ClassNames}]

----------------------------------------------------------------------------
(* Elements. *)

\* ImgPlaceholder(): a div filling the wrapper, pulsing.
ImgPlaceholder ==
  [tag |-> "div", className |-> FillParent \o Pulse, alt |-> Undefined,
   src |-> Undefined, onLoad |-> Undefined]

\* Faulty variant of Img: the pulse is not removed once loaded.
Img_AlwaysPulse(alt, className, handleLoadProp, loadedProp, shimmerProp, src) ==
  [tag |-> "img",
   className |-> clsx(<<Str(FillParent), Str(Pulse), className>>),
   alt |-> alt, src |-> src, onLoad |-> handleLoadProp]

\* Faulty variant of Img: the caller's class is not passed on.
Img_DropsClassName(alt, className, handleLoadProp, loadedProp, shimmerProp, src) ==
  LET ld == Default(loadedProp, Bool(FALSE))
      sh == Default(shimmerProp, Bool(FALSE))
  IN [tag |-> "img",
      className |-> clsx(<<Str(FillParent), And(And(sh, Not(ld)), Str(Pulse))>>),
      alt |-> alt, src |-> src, onLoad |-> handleLoadProp]

\* Img({alt, className, handleLoad, loaded = false, shimmer = false, src}).
Img(alt, className, handleLoadProp, loadedProp, shimmerProp, src) ==
  LET ld == Default(loadedProp, Bool(FALSE))
      sh == Default(shimmerProp, Bool(FALSE))
  IN [tag |-> "img",
      className |-> clsx(<<Str(FillParent),
                           And(And(sh, Not(ld)), Str(Pulse)),
                           className>>),
      alt |-> alt, src |-> src, onLoad |-> handleLoadProp]

\* Faulty variant of classNameByAspectRatio: two modes share a class.
classNameByAspectRatio_Shared(aspectRatio) ==
  CASE aspectRatio = Str(<<"auto">>) -> <<"aspect-auto">>
    [] aspectRatio = Str(<<"square">>) -> <<"aspect-video">>
    [] aspectRatio = Str(<<"video">>) -> <<"aspect-video">>
    [] OTHER -> <<"undefined">>

\* classNameByAspectRatio[aspectRatio]; a missing key reads as undefined,
\* which the template literal prints as "undefined".
classNameByAspectRatio(aspectRatio) ==
  CASE aspectRatio = Str(<<"auto">>) -> <<"aspect-auto">>
    [] aspectRatio = Str(<<"square">>) -> <<"aspect-square">>
    [] aspectRatio = Str(<<"video">>) -> <<"aspect-video">>
    [] OTHER -> <<"undefined">>

\* ImgWrapper({children, aspectRatio = 'auto'}).
ImgWrapper(children, aspectRatio) ==
  [tag |-> "div",
   className |-> classNameByAspectRatio(Default(aspectRatio, Str(<<"auto">>))),
   child |-> children]

\* Faulty variant of Image: the two branches of the ternary are swapped.
Image_SwappedBranches(p, ld, mt) ==
  LET aspectRatio == Default(p.aspectRatio, Str(<<"auto">>))
      imgProps == IF p.imgProps.kind = "undefined" THEN ImgPropsObj(Undefined) ELSE p.imgProps
      shimmer == Default(p.shimmer, Bool(FALSE))
      className == imgProps.className
  IN IF ~Truthy(shimmer)
     THEN ImgWrapper(Img(p.alt, className, Undefined, Undefined, Undefined, p.src), aspectRatio)
     ELSE ImgWrapper(IF mt THEN ImgPlaceholder
                     ELSE Img(p.alt, className, Fn("handleLoad"), Bool(ld), Undefined, p.src),
                     aspectRatio)

\* Faulty variant of Image: the image is rendered before the client has mounted.
Image_NoDefer(p, ld, mt) ==
  LET aspectRatio == Default(p.aspectRatio, Str(<<"auto">>))
      imgProps == IF p.imgProps.kind = "undefined" THEN ImgPropsObj(Undefined) ELSE p.imgProps
      shimmer == Default(p.shimmer, Bool(FALSE))
      className == imgProps.className
  IN IF ~Truthy(shimmer)
     THEN ImgWrapper(Img(p.alt, className, Undefined, Undefined, Undefined, p.src), aspectRatio)
     ELSE ImgWrapper(Img(p.alt, className, Fn("handleLoad"), Bool(ld), Undefined, p.src),
                     aspectRatio)

\* Faulty variant of Image: the early return for shimmer = false is missing.
Image_AlwaysStaged(p, ld, mt) ==
  LET aspectRatio == Default(p.aspectRatio, Str(<<"auto">>))
      imgProps == IF p.imgProps.kind = "undefined" THEN ImgPropsObj(Undefined) ELSE p.imgProps
      className == imgProps.className
  IN ImgWrapper(IF mt THEN Img(p.alt, className, Fn("handleLoad"), Bool(ld), Undefined, p.src)
                ELSE ImgPlaceholder,
                aspectRatio)

\* Faulty variant of Image: the mounted branch wraps the image without the ratio.
Image_LosesRatio(p, ld, mt) ==
  LET aspectRatio == Default(p.aspectRatio, Str(<<"auto">>))
      imgProps == IF p.imgProps.kind = "undefined" THEN ImgPropsObj(Undefined) ELSE p.imgProps
      shimmer == Default(p.shimmer, Bool(FALSE))
      className == imgProps.className
  IN IF ~Truthy(shimmer)
     THEN ImgWrapper(Img(p.alt, className, Undefined, Undefined, Undefined, p.src), aspectRatio)
     ELSE IF mt
          THEN ImgWrapper(Img(p.alt, className, Fn("handleLoad"), Bool(ld), Undefined, p.src),
                          Undefined)
          ELSE ImgWrapper(ImgPlaceholder, aspectRatio)

\* Image({alt, aspectRatio = 'auto', imgProps = {}, shimmer = false, src}),
\* called with the current values ld, mt of the state cells loaded, mounted.
\* Neither call of Img passes a `shimmer` prop.
Image(p, ld, mt) ==
  LET aspectRatio == Default(p.aspectRatio, Str(<<"auto">>))
      imgProps == IF p.imgProps.kind = "undefined" THEN ImgPropsObj(Undefined) ELSE p.imgProps
      shimmer == Default(p.shimmer, Bool(FALSE))
      className == imgProps.className
  IN IF ~Truthy(shimmer)
     THEN ImgWrapper(Img(p.alt, className, Undefined, Undefined, Undefined, p.src), aspectRatio)
     ELSE ImgWrapper(IF mt THEN Img(p.alt, className, Fn("handleLoad"), Bool(ld), Undefined, p.src)
                     ELSE ImgPlaceholder,
                     aspectRatio)

\* Whether this instance takes the stateful path (calls the hooks).
Shimmer == Truthy(Default(props.shimmer, Bool(FALSE)))

----------------------------------------------------------------------------
(* State changes. *)

\* Faulty variant of handleLoad: the flag is toggled instead of set.
handleLoad_Toggles == loaded' = ~loaded

\* handleLoad = () => setLoaded(true)
handleLoad == loaded' = TRUE

\* Faulty variant of MountCallback: the flag is never raised.
MountCallback_Forgets == mounted' = FALSE

\* The effect callback: () => { setMounted(true) }
MountCallback == mounted' = TRUE

\* useState(false) twice; the first call of Image; no effect has run.
Init ==
  /\ props \in Props
  /\ env \in {"server", "client"}
  /\ loaded = FALSE
  /\ mounted = FALSE
  /\ committed = FALSE
  /\ loadEvents = 0
  /\ tree = Image(props, FALSE, FALSE)

\* The client commits the first render and runs the effects it registered.
\* useEffect(..., []) registers the callback once, on the stateful path
\* only, and never on the server; the state change re-renders.
MountEffect ==
  /\ env = "client"
  /\ ~committed
  /\ committed' = TRUE
  /\ IF Shimmer
     THEN /\ MountCallback
          /\ tree' = Image(props, loaded, mounted')
          /\ UNCHANGED loaded
     ELSE UNCHANGED <<mounted, loaded, tree>>
  /\ UNCHANGED <<props, env, loadEvents>>

\* The browser dispatches a load event on the <img> in the tree; its
\* onLoad handler, if there is one, runs and the state change re-renders.
ImgLoad ==
  /\ env = "client"
  /\ tree.child.tag = "img"
  /\ loadEvents < MaxLoads
  /\ loadEvents' = loadEvents + 1
  /\ IF tree.child.onLoad.kind = "function"
     THEN /\ handleLoad
          /\ tree' = Image(props, loaded', mounted)
          /\ UNCHANGED mounted
     ELSE UNCHANGED <<mounted, loaded, tree>>
  /\ UNCHANGED <<props, env, committed>>

\* The parent re-renders the instance with the same props.
Rerender ==
  /\ env = "client"
  /\ tree' = Image(props, loaded, mounted)
  /\ UNCHANGED <<props, env, loaded, mounted, committed, loadEvents>>

Next == MountEffect \/ ImgLoad \/ Rerender

Spec == Init /\ [][Next]_vars

\* The client runs a committed component's effects.
FairSpec == Spec /\ WF_vars(MountEffect)

----------------------------------------------------------------------------
(* Properties. *)

ImgPresent == tree.child.tag = "img"
PlaceholderPresent == tree.child.tag = "div"
HasPulse(cls) == Range(Pulse) \subseteq Range(cls)
HasFillParent(cls) == Range(FillParent) \subseteq Range(cls)

\* The class tokens the caller supplied through imgProps.className.
CallerClass ==
  IF props.imgProps.kind = "object" /\ props.imgProps.className.kind = "string"
  THEN props.imgProps.className.s
  ELSE <<>>

\* The container class the source writes for the requested mode.
RatioClass ==
  CASE props.aspectRatio = Str(<<"square">>) -> <<"aspect-square">>
    [] props.aspectRatio = Str(<<"video">>) -> <<"aspect-video">>
    [] OTHER -> <<"aspect-auto">>

\* C1: on the stateful path, once mounted and until loaded, the image is in
\* the tree and its class list holds the pulse classes.
C1_PulseWhileLoading ==
  (Shimmer /\ mounted /\ ~loaded) => (ImgPresent /\ HasPulse(tree.child.className))

\* C2: on the stateful path, while not mounted (first render, server
\* render), the placeholder is the container's child and no image exists.
C2_PlaceholderUntilMounted ==
  (Shimmer /\ ~mounted) =>
     /\ tree.child = ImgPlaceholder
     /\ PlaceholderPresent
     /\ ~ImgPresent

C2_Witness == Shimmer /\ ~mounted /\ PlaceholderPresent /\ env = "server"

\* C3: on the stateful path, once loaded, the image's class list is the
\* fill-parent classes followed by the caller's class, without the pulse
\* classes, and no placeholder is rendered.
C3_PlainImageWhenLoaded ==
  (Shimmer /\ loaded) =>
     /\ ImgPresent
     /\ ~PlaceholderPresent
     /\ ~HasPulse(tree.child.className)
     /\ tree.child.className = FillParent \o CallerClass

C3_Witness == Shimmer /\ loaded /\ ImgPresent /\ CallerClass # <<>>

\* C4: without shimmer the first render already holds the image, the
\* placeholder is never rendered, no state cell ever changes and no event
\* changes the output, which is fixed by the props.
C4_StatelessState ==
  ~Shimmer =>
     /\ ImgPresent
     /\ ~PlaceholderPresent
     /\ ~mounted /\ ~loaded
     /\ tree.className = RatioClass
     /\ tree.child.className = FillParent \o CallerClass
     /\ tree.child.alt = props.alt
     /\ tree.child.src = props.src

C4_Stateless ==
  /\ []C4_StatelessState
  /\ [][~Shimmer => tree' = tree]_vars

C4_Witness == ~Shimmer /\ committed /\ loadEvents >= 1 /\ ImgPresent

\* C5: mounted and loaded never go from true to false, and a load event in
\* the loaded state changes neither flag nor the output.
C5_Monotonic ==
  [][/\ mounted => mounted'
     /\ loaded => loaded'
     /\ (mounted /\ loaded /\ loadEvents' # loadEvents) =>
           (mounted' /\ loaded' /\ tree' = tree)]_vars

C5_Witness == Shimmer /\ mounted /\ loaded /\ loadEvents >= 2

\* C6: each mode has its own container class, no two modes share one, and
\* an omitted mode renders as auto.
C6_RatioMapping ==
  /\ classNameByAspectRatio(Str(<<"auto">>)) = <<"aspect-auto">>
  /\ classNameByAspectRatio(Str(<<"square">>)) = <<"aspect-square">>
  /\ classNameByAspectRatio(Str(<<"video">>)) = <<"aspect-video">>
  /\ \A m1, m2 \in AspectRatios :
        classNameByAspectRatio(m1) = classNameByAspectRatio(m2) => m1 = m2
  /\ props.aspectRatio \in AspectRatios =>
        tree.className = classNameByAspectRatio(props.aspectRatio)
  /\ props.aspectRatio = Undefined => tree.className = <<"aspect-auto">>

C6_Witness == props.aspectRatio = Undefined /\ tree.className = <<"aspect-auto">> /\ committed

\* C7: on the stateful path the container carries the class of the
\* requested mode in every state, and no transition changes it.
C7_RatioKept ==
  /\ [](Shimmer => tree.className = RatioClass)
  /\ [][Shimmer => tree'.className = tree.className]_vars

C7_Witness ==
  /\ Shimmer /\ mounted /\ loaded
  /\ props.aspectRatio = Str(<<"video">>)
  /\ tree.className = <<"aspect-video">>

\* C8: on a client, a stateful instance eventually becomes mounted; a load
\* event on the mounted image sets loaded; mounted-and-loaded is never
\* left; a mounted instance is never mounted again.
C8_Progress ==
  /\ (Shimmer /\ env = "client") ~> mounted
  /\ [][(Shimmer /\ mounted /\ loadEvents' # loadEvents) => (mounted' /\ loaded')]_vars
  /\ [][(mounted /\ loaded) => (mounted' /\ loaded')]_vars
  /\ [][(committed => committed') /\ (committed => mounted' = mounted)]_vars

C8_Witness == Shimmer /\ env = "client" /\ committed /\ mounted /\ loaded

\* C9: whenever the image is rendered its class list holds the fill-parent
\* classes and the caller's class; the placeholder never holds the caller's
\* class.
C9_ImageClasses ==
  /\ ImgPresent =>
        /\ HasFillParent(tree.child.className)
        /\ Range(CallerClass) \subseteq Range(tree.child.className)
  /\ PlaceholderPresent => Range(CallerClass) \cap Range(tree.child.className) = {}

C9_Witness == Shimmer /\ ImgPresent /\ ~loaded /\ Len(CallerClass) = 2

\* C10: loaded implies mounted, so the flags take only the three
\* combinations unmounted, mounted-loading and mounted-loaded.
C10_LoadedImpliesMounted ==
  /\ loaded => mounted
  /\ (loaded \/ mounted) => Shimmer

C10_Witness == Shimmer /\ mounted /\ ~loaded /\ loadEvents = 0

====
